---- MODULE Spec2Model ----
(***************************************************************************)
(* Model of image_to_voxel.py: ImageToVoxelConverter.convert_image, its    *)
(* three strategies (_height_based_voxels, _color_layered_voxels,          *)
(* _structure_based_voxels) and save_voxels.                               *)
(*                                                                         *)
(* Pixels are <<r, g, b>> triples, an image is a record [size, px] whose   *)
(* px maps <<row, col>> to a pixel, a voxel grid maps <<x, y, z>> to a     *)
(* boolean and a colour grid maps <<x, y, z>> to a pixel.  numpy's         *)
(* floating-point expressions are evaluated in IEEE-754 arithmetic         *)
(* (binary64, or binary32 where the array is float32) with                 *)
(* round-to-nearest-even, followed by astype's truncation.                 *)
(***************************************************************************)
EXTENDS Integers, Sequences, FiniteSets, TLC

\* Bounds of the explored inputs.
MaxRes == 2
MaxDepth == 3

\* Default depth_levels of _structure_based_voxels and of convert_image.
DefaultDepthLevels == 24

(***************************************************************************)
(* IEEE-754 arithmetic on non-negative values.  A float is [m, e] with     *)
(* value m * 2^e; m is a natural number held as a little-endian sequence   *)
(* of 13-bit limbs with exactly p significant bits (<<>> is zero).         *)
(***************************************************************************)
Base == 2^13

RECURSIVE MulSmall(_, _, _)
MulSmall(a, k, carry) ==
  IF a = <<>>
  THEN IF carry = 0 THEN <<>> ELSE <<carry % Base>> \o MulSmall(<<>>, k, carry \div Base)
  ELSE <<(a[1] * k + carry) % Base>> \o MulSmall(Tail(a), k, (a[1] * k + carry) \div Base)

RECURSIVE DivSmall(_, _)
DivSmall(a, d) ==
  IF a = <<>> THEN [q |-> <<>>, r |-> 0]
  ELSE LET hi == DivSmall(Tail(a), d)
           cur == hi.r * Base + a[1]
       IN [q |-> <<cur \div d>> \o hi.q, r |-> cur % d]

RECURSIVE SubBig(_, _, _)
SubBig(a, b, borrow) ==
  IF a = <<>> THEN <<>>
  ELSE LET t == a[1] - (IF b = <<>> THEN 0 ELSE b[1]) - borrow
       IN <<t % Base>> \o SubBig(Tail(a), IF b = <<>> THEN <<>> ELSE Tail(b),
                                 IF t < 0 THEN 1 ELSE 0)

Norm(a) ==
  LET nz == {i \in 1..Len(a) : a[i] # 0}
  IN IF nz = {} THEN <<>> ELSE SubSeq(a, 1, CHOOSE i \in nz : \A j \in nz : j <= i)

FromInt(n) == Norm(<<n % Base, (n \div Base) % Base, n \div (Base * Base)>>)

RECURSIVE ToInt(_)
ToInt(a) == IF a = <<>> THEN 0 ELSE a[1] + Base * ToInt(Tail(a))

BitLen(a) ==
  IF a = <<>> THEN 0
  ELSE 13 * (Len(a) - 1) + CHOOSE b \in 1..13 : 2^(b - 1) <= a[Len(a)] /\ a[Len(a)] < 2^b

Bit(a, j) == IF j \div 13 + 1 > Len(a) THEN 0 ELSE (a[j \div 13 + 1] \div 2^(j % 13)) % 2

LowNonzero(a, j) ==
  \E i \in 1..Len(a) :
    \/ i < j \div 13 + 1 /\ a[i] # 0
    \/ i = j \div 13 + 1 /\ a[i] % 2^(j % 13) # 0

ShiftLeft(a, s) == Norm([i \in 1..(s \div 13) |-> 0] \o MulSmall(a, 2^(s % 13), 0))

ShiftRight(a, t) ==
  IF t \div 13 >= Len(a) THEN <<>>
  ELSE Norm(DivSmall(SubSeq(a, t \div 13 + 1, Len(a)), 2^(t % 13)).q)

Zero == [m |-> <<>>, e |-> 0]

\* Round the value a * 2^e (plus a nonzero remainder below a's last bit when
\* sticky) to p significant bits, ties to even.
RoundTo(a, e, sticky, p) ==
  LET L == BitLen(a) IN
  IF L = 0 THEN Zero
  ELSE IF L <= p THEN [m |-> ShiftLeft(a, p - L), e |-> e - (p - L)]
  ELSE LET t == L - p
           q == ShiftRight(a, t)
           up == Bit(a, t - 1) = 1 /\ (sticky \/ LowNonzero(a, t - 1) \/ Bit(q, 0) = 1)
           m == IF up THEN Norm(MulSmall(q, 1, 1)) ELSE q
       IN IF BitLen(m) > p THEN [m |-> ShiftRight(m, 1), e |-> e + t + 1]
          ELSE [m |-> m, e |-> e + t]

RECURSIVE GCD(_, _)
GCD(a, b) == IF b = 0 THEN a ELSE GCD(b, a % b)

\* n / d for integers 0 <= n <= d, d > 0, rounded to p bits.
FDiv(n, d, p) ==
  IF n = 0 THEN Zero
  ELSE LET g == GCD(n, d)
           nn == n \div g
           dd == d \div g
           c == CHOOSE k \in 0..30 : nn * 2^k >= dd /\ (k = 0 \/ nn * 2^(k - 1) < dd)
           qr == DivSmall(ShiftLeft(FromInt(nn * 2^c), p), dd)
       IN RoundTo(Norm(qr.q), -c - p, qr.r # 0, p)

\* x * k for an integer k >= 0, rounded to p bits.
FMul(x, k, p) ==
  IF x.m = <<>> \/ k = 0 THEN Zero
  ELSE RoundTo(Norm(MulSmall(x.m, k, 0)), x.e, FALSE, p)

\* x * 0.5 (exact).
FHalf(x) == IF x.m = <<>> THEN Zero ELSE [x EXCEPT !.e = @ - 1]

\* 1.0 - x for 0 <= x <= 1, rounded to p bits.
FOneMinus(x, p) ==
  IF x.m = <<>> THEN RoundTo(<<1>>, 0, FALSE, p)
  ELSE RoundTo(Norm(SubBig(ShiftLeft(<<1>>, -x.e), x.m, 0)), x.e, FALSE, p)

\* astype(int) / int(): truncation toward zero.
Trunc(x) ==
  IF x.m = <<>> THEN 0
  ELSE IF x.e >= 0 THEN ToInt(x.m) * 2^x.e
  ELSE ToInt(ShiftRight(x.m, -x.e))

\* A numpy array is computed once: materialise a function.
Materialise(f) == f @@ <<>>

Max(S) == CHOOSE v \in S : \A w \in S : w <= v
Abs(n) == IF n < 0 THEN -n ELSE n

(***************************************************************************)
(* Images and the OpenCV operations the strategies call.                   *)
(***************************************************************************)
Palette ==
  {<<0, 0, 0>>, <<255, 255, 255>>, <<155, 155, 155>>, <<68, 255, 0>>, <<0, 0, 255>>, <<30, 0, 0>>}

BlackWhite == {<<0, 0, 0>>, <<255, 255, 255>>}
FewColours == {<<0, 0, 0>>, <<255, 255, 255>>, <<68, 255, 0>>, <<30, 0, 0>>}

Pix(R) == (0..(R - 1)) \X (0..(R - 1))

\* Images of two colours, the foreground on an arbitrary set of pixels.
TwoTone(R) ==
  {[size |-> R, px |-> [q \in Pix(R) |-> IF q \in mask THEN fg ELSE bg]] :
     fg \in Palette, bg \in Palette, mask \in SUBSET Pix(R)}

\* Images of two horizontal bands: rows above k in one colour, the rest in another.
BandImages(R, colours) ==
  {[size |-> R, px |-> [q \in Pix(R) |-> IF q[1] < k THEN top ELSE bottom]] :
     top \in colours, bottom \in colours, k \in 0..(R - 1)}

\* cv2.resize(image, (R, R)) of an image that already is R x R.
Resize(image, R) == [size |-> R, px |-> [q \in Pix(R) |-> image.px[q]]]

\* cv2.cvtColor(pixel, COLOR_RGB2GRAY) for 8-bit pixels.
Gray(p) == (4899 * p[1] + 9617 * p[2] + 1868 * p[3] + 8192) \div 16384

\* cv2.cvtColor(pixel, COLOR_RGB2HSV) for 8-bit pixels: hue in 0..179.
HSV(p) ==
  LET v == Max({p[1], p[2], p[3]})
      lo == CHOOSE w \in {p[1], p[2], p[3]} : \A u \in {p[1], p[2], p[3]} : w <= u
      diff == v - lo
      s == IF v = 0 THEN 0 ELSE (255 * diff + v \div 2) \div v
      sector == IF v = p[1] THEN p[2] - p[3]
                ELSE IF v = p[2] THEN p[3] - p[1] + 2 * diff
                ELSE p[1] - p[2] + 4 * diff
      h == IF diff = 0 THEN 0 ELSE (30 * sector + diff \div 2) \div diff
  IN <<IF h < 0 THEN h + 180 ELSE h, s, v>>

RowPix(r, R) == {q \in Pix(R) : q[1] = r}

\* cv2.Canny(gray, 50, 150) on an image of horizontal bands.  The Sobel
\* response at a step between rows k-1 and k is 4 * |difference| on both
\* rows; non-maximum suppression keeps one of the two rows, and the row
\* is an edge when the response exceeds the high threshold.
CannyOutputs(gray, R) ==
  LET steps == {k \in 1..(R - 1) : gray[<<k, 0>>] # gray[<<k - 1, 0>>]}
  IN IF steps = {} THEN {{}}
     ELSE LET k == CHOOSE j \in steps : TRUE
          IN IF 4 * Abs(gray[<<k, 0>>] - gray[<<k - 1, 0>>]) > 150
             THEN {RowPix(k - 1, R), RowPix(k, R)}
             ELSE {{}}

\* Distance of the 5x5 chamfer mask of cv2.DIST_L2, in units of 1/65536 pixel.
Chamfer(dy, dx) ==
  LET mx == IF dy > dx THEN dy ELSE dx
      mn == IF dy > dx THEN dx ELSE dy
  IN IF 2 * mn <= mx THEN mn * 143976 + (mx - 2 * mn) * 65536
     ELSE (mx - mn) * 143976 + (2 * mn - mx) * 91750

\* What cv2.distanceTransform gives every pixel of an image with no zero pixel.
NoZeroPixelDist == 536870912

\* cv2.distanceTransform(255 - edges, cv2.DIST_L2, 5) at pixel q.
DistanceTransform(edges, q) ==
  IF edges = {} THEN NoZeroPixelDist
  ELSE LET ds == {Chamfer(Abs(q[1] - e[1]), Abs(q[2] - e[2])) : e \in edges}
       IN CHOOSE d \in ds : \A w \in ds : d <= w

(***************************************************************************)
(* Grids.                                                                  *)
(***************************************************************************)
Cells(shape) == (0..(shape[1] - 1)) \X (0..(shape[2] - 1)) \X (0..(shape[3] - 1))

Raise(e) == [error |-> e, voxels |-> <<>>, colors |-> <<>>, shape |-> <<>>]

\* numpy accepts an index i on an axis of length n when -n <= i < n.
IndexOk(i, n) == -n <= i /\ i < n
NpIndex(i, n) == IF i < 0 THEN i + n ELSE i

\* Line 84: ((gray / 255.0) * max_height).astype(int)
HeightOf(g, max_height) == Trunc(FMul(FDiv(g, 255, 53), max_height, 53))

height_based_voxels(image, voxel_resolution, max_height) ==
  IF voxel_resolution <= 0 THEN Raise("cv2.error")
  ELSE IF max_height < 0 THEN Raise("ValueError")
  ELSE LET resized == Resize(image, voxel_resolution)
           heights == Materialise([q \in Pix(voxel_resolution) |->
                                     HeightOf(Gray(resized.px[q]), max_height)])
           shape == <<voxel_resolution, voxel_resolution, max_height>>
       IN IF \E q \in Pix(voxel_resolution) : heights[q] > max_height
          THEN Raise("IndexError")
          ELSE [error |-> "none",
                voxels |-> [c \in Cells(shape) |-> c[3] < heights[<<c[2], c[1]>>]],
                colors |-> [c \in Cells(shape) |->
                              IF c[3] < heights[<<c[2], c[1]>>]
                              THEN resized.px[<<c[2], c[1]>>] ELSE <<0, 0, 0>>],
                shape |-> shape]

\* Lines 112-113: min(int((hue / 180.0) * layers), layers - 1)
HueLayer(hue, layers) ==
  LET hue_layer == Trunc(FMul(FDiv(hue, 180, 53), layers, 53))
  IN IF hue_layer < layers - 1 THEN hue_layer ELSE layers - 1

\* Line 115: the saturation / value gate.
Gate(hsv) == hsv[2] > 30 /\ hsv[3] > 30

color_layered_voxels(image, voxel_resolution, layers) ==
  IF voxel_resolution <= 0 THEN Raise("cv2.error")
  ELSE IF layers < 0 THEN Raise("ValueError")
  ELSE LET resized == Resize(image, voxel_resolution)
           hsv == Materialise([q \in Pix(voxel_resolution) |-> HSV(resized.px[q])])
           layer == Materialise([q \in Pix(voxel_resolution) |-> HueLayer(hsv[q][1], layers)])
           shape == <<voxel_resolution, voxel_resolution, layers>>
       IN IF \E q \in Pix(voxel_resolution) : Gate(hsv[q]) /\ ~IndexOk(layer[q], layers)
          THEN Raise("IndexError")
          ELSE [error |-> "none",
                voxels |-> [c \in Cells(shape) |->
                              /\ Gate(hsv[<<c[2], c[1]>>])
                              /\ NpIndex(layer[<<c[2], c[1]>>], layers) = c[3]],
                colors |-> [c \in Cells(shape) |->
                              IF /\ Gate(hsv[<<c[2], c[1]>>])
                                 /\ NpIndex(layer[<<c[2], c[1]>>], layers) = c[3]
                              THEN resized.px[<<c[2], c[1]>>] ELSE <<0, 0, 0>>],
                shape |-> shape]

\* Line 131: (dist_transform / max_dist * (depth_levels - 1)).astype(int), in float32.
DepthOf(d, max_dist, depth_levels) ==
  IF depth_levels >= 1
  THEN Trunc(FMul(FDiv(d, max_dist, 24), depth_levels - 1, 24))
  ELSE -Trunc(FMul(FDiv(d, max_dist, 24), 1 - depth_levels, 24))

\* Lines 145-146: (channel * (1.0 - (z / max(depth_levels, 1)) * 0.5)).astype(np.uint8)
Shade(v, z, depth_levels) ==
  Trunc(FMul(FOneMinus(FHalf(FDiv(z, Max({depth_levels, 1}), 53)), 53), v, 53))

structure_based_voxels(image, voxel_resolution, depth_levels, edges) ==
  IF voxel_resolution <= 0 THEN Raise("cv2.error")
  ELSE LET resized == Resize(image, voxel_resolution)
           P == Pix(voxel_resolution)
           dist_transform == Materialise([q \in P |-> DistanceTransform(edges, q)])
           max_dist == Max({dist_transform[q] : q \in P})
           scaled == Materialise([d \in {dist_transform[q] : q \in P} |->
                                    DepthOf(d, max_dist, depth_levels)])
           depth_map == Materialise([q \in P |->
                                       IF max_dist > 0 THEN scaled[dist_transform[q]] ELSE 0])
           shape == <<voxel_resolution, voxel_resolution, depth_levels>>
           channels == UNION {{resized.px[q][1], resized.px[q][2], resized.px[q][3]} : q \in P}
           shade == Materialise([v \in channels, z \in 0..(depth_levels - 1) |->
                                   Shade(v, z, depth_levels)])
       IN IF depth_levels < 0 THEN Raise("ValueError")
          ELSE IF \E q \in P : depth_map[q] >= 0 /\ depth_map[q] >= depth_levels
          THEN Raise("IndexError")
          ELSE [error |-> "none",
                voxels |-> [c \in Cells(shape) |-> c[3] <= depth_map[<<c[2], c[1]>>]],
                colors |-> [c \in Cells(shape) |->
                              IF c[3] <= depth_map[<<c[2], c[1]>>]
                              THEN <<shade[resized.px[<<c[2], c[1]>>][1], c[3]],
                                     shade[resized.px[<<c[2], c[1]>>][2], c[3]],
                                     shade[resized.px[<<c[2], c[1]>>][3], c[3]]>>
                              ELSE <<0, 0, 0>>],
                shape |-> shape]

(***************************************************************************)
(* convert_image and save_voxels as a state machine.                       *)
(***************************************************************************)
VARIABLES
  pc,              \* "idle", "loop", "returned", "raised", "saved", "save_raised"
  call,            \* the arguments of convert_image and the file at image_path
  img_rgb,         \* the loaded image
  methods_to_run,  \* the methods the loop has still to run
  results,         \* the mapping under construction
  edges,           \* the edge map of the last structure run
  out,             \* what has been printed
  error,           \* the exception that ended the call, or "none"
  returned,        \* the mapping convert_image returned (when pc is "returned" or later)
  saved            \* the archive save_voxels wrote

vars == <<pc, call, img_rgb, methods_to_run, results, edges, out, error, returned, saved>>

supported_methods == {"height", "color", "structure", "all"}

NoCall == [exists |-> FALSE, image |-> "none", method |-> "none", kwargs |-> "none"]

Init ==
  /\ pc = "idle"
  /\ call = NoCall
  /\ img_rgb = [size |-> 0, px |-> <<>>]
  /\ methods_to_run = <<>>
  /\ results = <<>>
  /\ edges = {}
  /\ out = <<>>
  /\ error = "none"
  /\ returned = <<>>
  /\ saved = [written |-> FALSE]

Kwargs(R, H, L, D) ==
  [voxel_resolution |-> R, max_height |-> H, layers |-> L, depth_levels |-> D]

\* Lines 30-44: the existence check, the load and the choice of methods.
convert_image(c) ==
  /\ pc = "idle"
  /\ call' = c
  /\ IF ~c.exists
     THEN /\ pc' = "raised"
          /\ error' = "FileNotFoundError"
          /\ UNCHANGED <<img_rgb, methods_to_run, results, out>>
     ELSE /\ pc' = "loop"
          /\ img_rgb' = c.image
          /\ out' = <<<<"Processing", c.image.size>>>>
          /\ results' = <<>>
          /\ methods_to_run' = IF c.method = "all"
                               THEN <<"height", "color", "structure">>
                               ELSE <<c.method>>
          /\ UNCHANGED error
  /\ UNCHANGED <<edges, returned, saved>>

Count(voxels) == Cardinality({c \in DOMAIN voxels : voxels[c]})

\* A loop that isolates a strategy's failure and goes on with the next method.
IterateIsolating(m, r) ==
  /\ out' = Append(out, <<"Running", m>>)
  /\ methods_to_run' = Tail(methods_to_run)
  /\ results' = IF r.error # "none" THEN results
                ELSE (m :> [voxels |-> r.voxels, colors |-> r.colors, shape |-> r.shape,
                            count |-> Cardinality({c \in DOMAIN r.voxels : r.voxels[c]}),
                            method |-> m]) @@ results
  /\ UNCHANGED <<pc, error>>

\* Lines 47 and 68-76: one iteration of the loop around the strategy's result r.
Iterate(m, r) ==
  IF r.error # "none"
  THEN /\ pc' = "raised"
       /\ error' = r.error
       /\ out' = Append(out, <<"Running", m>>)
       /\ UNCHANGED <<methods_to_run, results>>
  ELSE /\ results' = (m :> [voxels |-> r.voxels, colors |-> r.colors, shape |-> r.shape,
                            count |-> Count(r.voxels), method |-> m]) @@ results
       /\ out' = out \o <<<<"Running", m>>, <<"Created", m, Count(r.voxels)>>>>
       /\ methods_to_run' = Tail(methods_to_run)
       /\ UNCHANGED <<pc, error>>

RunHeight ==
  /\ pc = "loop" /\ methods_to_run # <<>> /\ Head(methods_to_run) = "height"
  /\ Iterate("height", height_based_voxels(img_rgb, call.kwargs.voxel_resolution,
                                           call.kwargs.max_height))
  /\ UNCHANGED <<call, img_rgb, edges, returned, saved>>

RunColor ==
  /\ pc = "loop" /\ methods_to_run # <<>> /\ Head(methods_to_run) = "color"
  /\ Iterate("color", color_layered_voxels(img_rgb, call.kwargs.voxel_resolution,
                                           call.kwargs.layers))
  /\ UNCHANGED <<call, img_rgb, edges, returned, saved>>

GrayImage(image, R) == [q \in Pix(R) |-> Gray(image.px[q])]

RunStructure ==
  /\ pc = "loop" /\ methods_to_run # <<>> /\ Head(methods_to_run) = "structure"
  /\ \E e \in CannyOutputs(GrayImage(img_rgb, call.kwargs.voxel_resolution),
                           call.kwargs.voxel_resolution) :
       /\ edges' = e
       /\ Iterate("structure", structure_based_voxels(img_rgb, call.kwargs.voxel_resolution,
                                                      call.kwargs.depth_levels, e))
  /\ UNCHANGED <<call, img_rgb, returned, saved>>

\* No branch of lines 49-66 matches: line 68 reads the unbound local voxels.
RunUnknown ==
  /\ pc = "loop" /\ methods_to_run # <<>>
  /\ Head(methods_to_run) \notin {"height", "color", "structure"}
  /\ pc' = "raised"
  /\ error' = "UnboundLocalError"
  /\ out' = Append(out, <<"Running", Head(methods_to_run)>>)
  /\ UNCHANGED <<call, img_rgb, methods_to_run, results, edges, returned, saved>>

\* Line 78.
Return ==
  /\ pc = "loop" /\ methods_to_run = <<>>
  /\ pc' = "returned"
  /\ returned' = results
  /\ UNCHANGED <<call, img_rgb, methods_to_run, results, edges, out, error, saved>>

\* Fortran-order position of a cell.
FlatIndexColumnMajor(c, shape) == c[1] + shape[1] * (c[2] + shape[2] * c[3])

\* C-order position of a cell in a grid of the given shape.
FlatIndex(c, shape) == (c[1] * shape[2] + c[2]) * shape[3] + c[3]

\* The true cells above the ground layer only, in C order.
WhereAboveGround(voxels, shape) ==
  LET occupied == {c \in DOMAIN voxels : voxels[c] /\ c[3] > 0}
  IN [i \in 1..Cardinality(occupied) |->
        CHOOSE c \in occupied :
          Cardinality({b \in occupied : (b[1] * shape[2] + b[2]) * shape[3] + b[3]
                                          < (c[1] * shape[2] + c[2]) * shape[3] + c[3]}) = i - 1]

\* np.where(voxels) with np.column_stack: the true cells in C order.
Where(voxels, shape) ==
  LET occupied == {c \in DOMAIN voxels : voxels[c]}
  IN [i \in 1..Cardinality(occupied) |->
        CHOOSE c \in occupied :
          Cardinality({b \in occupied : FlatIndex(b, shape) < FlatIndex(c, shape)}) = i - 1]

Suffixes == {".npz", ".bin", ".txt"}

\* Lines 150-166: save_voxels(returned[m], filename) for a filename with the suffix.
save_voxels(m, suffix) ==
  /\ pc = "returned"
  /\ m \in DOMAIN returned
  /\ IF suffix = ".npz"
     THEN LET positions == Where(returned[m].voxels, returned[m].shape)
          IN /\ saved' = [written |-> TRUE,
                          positions |-> positions,
                          colors |-> [i \in DOMAIN positions |-> returned[m].colors[positions[i]]],
                          grid_shape |-> returned[m].shape,
                          method |-> returned[m].method]
             /\ out' = Append(out, <<"Saved", m>>)
             /\ pc' = "saved"
             /\ UNCHANGED error
     ELSE IF suffix = ".bin"
     THEN /\ pc' = "save_raised"
          /\ error' = "AttributeError"
          /\ UNCHANGED <<saved, out>>
     ELSE /\ out' = Append(out, <<"Saved", m>>)
          /\ pc' = "saved"
          /\ UNCHANGED <<saved, error>>
  /\ UNCHANGED <<call, img_rgb, methods_to_run, results, edges, returned>>

SaveVoxels == \E m \in {"height", "color", "structure"}, suffix \in Suffixes : save_voxels(m, suffix)

(***************************************************************************)
(* Specifications.                                                         *)
(***************************************************************************)
Resolutions == (-1)..MaxRes
Depths == (-1)..MaxDepth

CallArgs(exists, image, method, kwargs) ==
  [exists |-> exists, image |-> image, method |-> method, kwargs |-> kwargs]

\* The files at image_path: already of the requested resolution when that is valid.
TwoToneFiles(R) == TwoTone(IF R >= 1 THEN R ELSE 1)
BandFiles(R, colours) == BandImages(IF R >= 1 THEN R ELSE 1, colours)

\* convert_image(path, 'height', voxel_resolution=R, max_height=H)
HeightCalls(R) ==
  {CallArgs(TRUE, i, "height", Kwargs(R, H, 1, 1)) : H \in Depths \cup {51}, i \in TwoToneFiles(R)}

\* convert_image(path, 'color', voxel_resolution=R, layers=L)
ColorCalls(R) ==
  {CallArgs(TRUE, i, "color", Kwargs(R, 1, L, 1)) : L \in Depths \cup {45}, i \in TwoToneFiles(R)}

\* convert_image(path, 'structure', voxel_resolution=R, depth_levels=D)
StructureCalls(R) ==
  IF R <= MaxRes
  THEN {CallArgs(TRUE, i, "structure", Kwargs(R, 1, 1, D)) : D \in Depths, i \in BandFiles(R, Palette)}
  ELSE {CallArgs(TRUE, i, "structure", Kwargs(R, 1, 1, DefaultDepthLevels)) : i \in BandFiles(R, BlackWhite)}

\* convert_image with any selector, on an existing or a missing file.
AnyCalls(R) ==
  {CallArgs(TRUE, i, "height", Kwargs(R, d, 1, 1)) : d \in 0..MaxDepth, i \in BandFiles(R, FewColours)}
  \cup {CallArgs(TRUE, i, "color", Kwargs(R, 1, d, 1)) : d \in 0..MaxDepth, i \in BandFiles(R, FewColours)}
  \cup {CallArgs(TRUE, i, "structure", Kwargs(R, 1, 1, d)) : d \in 0..MaxDepth, i \in BandFiles(R, FewColours)}
  \cup {CallArgs(TRUE, i, "all", Kwargs(R, k[1], k[2], k[2])) :
          k \in (0..MaxDepth) \X (0..MaxDepth), i \in BandFiles(R, FewColours)}
  \cup {CallArgs(x, i, "cubes", Kwargs(R, 1, 1, 1)) : x \in BOOLEAN, i \in BandFiles(R, FewColours)}
  \cup {CallArgs(FALSE, i, m, Kwargs(R, 1, 1, 1)) : m \in supported_methods, i \in BandFiles(R, FewColours)}

CallHeight == \E R \in Resolutions : \E c \in HeightCalls(R) : convert_image(c)
CallColor == \E R \in Resolutions : \E c \in ColorCalls(R) : convert_image(c)
CallStructure == \E R \in Resolutions \cup {24} : \E c \in StructureCalls(R) : convert_image(c)
Call == \E R \in 0..MaxRes : \E c \in AnyCalls(R) : convert_image(c)

NextHeight == CallHeight \/ RunHeight \/ Return
SpecHeight == Init /\ [][NextHeight]_vars

NextColor == CallColor \/ RunColor \/ Return
SpecColor == Init /\ [][NextColor]_vars

NextStructure == CallStructure \/ RunStructure \/ Return
SpecStructure == Init /\ [][NextStructure]_vars

Next == Call \/ RunHeight \/ RunColor \/ RunStructure \/ RunUnknown \/ Return \/ SaveVoxels
Spec == Init /\ [][Next]_vars

(***************************************************************************)
(* Properties.                                                             *)
(***************************************************************************)
Ran == [i \in DOMAIN SelectSeq(out, LAMBDA e : e[1] = "Running") |->
          SelectSeq(out, LAMBDA e : e[1] = "Running")[i][2]]

Intended == IF call.method = "all" THEN <<"height", "color", "structure">> ELSE <<call.method>>

HasReturned == pc \in {"returned", "saved", "save_raised"}

Occupied(voxels) == {c \in DOMAIN voxels : voxels[c]}

LexLess(a, b) ==
  \/ a[1] < b[1]
  \/ a[1] = b[1] /\ a[2] < b[2]
  \/ a[1] = b[1] /\ a[2] = b[2] /\ a[3] < b[3]

\* C4: the dense grid rebuilt from the saved payload (true at each listed
\* coordinate of a grid of the declared shape, false elsewhere) equals the
\* occupancy grid of the strategy result that was saved.
EncoderRoundTrip ==
  saved.written =>
    [c \in Cells(saved.grid_shape) |-> \E i \in DOMAIN saved.positions : saved.positions[i] = c]
      = returned[saved.method].voxels

\* A result with both occupied and empty cells has been saved.
EncoderRoundTripWitness ==
  /\ saved.written
  /\ Len(saved.positions) >= 2
  /\ \E c \in Cells(saved.grid_shape) : ~returned[saved.method].voxels[c]
  /\ \E i \in DOMAIN saved.positions : saved.positions[i][3] = 0

\* C5: the saved coordinate list and colour list are as long as the recorded
\* occupied count, which is the number of true cells; no coordinate repeats;
\* coordinates ascend strictly in x-major, then y, then z order; the i-th
\* colour is the colour grid's value at the i-th coordinate; the declared
\* shape is the grid's shape.
EncoderPayloadOrdered ==
  saved.written =>
    LET r == returned[saved.method] IN
    /\ Len(saved.positions) = r.count
    /\ Len(saved.colors) = r.count
    /\ r.count = Cardinality(Occupied(r.voxels))
    /\ \A i, j \in DOMAIN saved.positions :
         i < j => /\ saved.positions[i] # saved.positions[j]
                  /\ LexLess(saved.positions[i], saved.positions[j])
    /\ \A i \in DOMAIN saved.positions : saved.colors[i] = r.colors[saved.positions[i]]
    /\ saved.grid_shape = r.shape
    /\ DOMAIN r.voxels = Cells(saved.grid_shape)

\* A saved payload lists cells that differ in x, in y and in z, with two colours.
EncoderPayloadOrderedWitness ==
  /\ saved.written
  /\ \E i, j \in DOMAIN saved.positions :
       /\ saved.positions[i][1] # saved.positions[j][1]
       /\ saved.colors[i] # saved.colors[j]
  /\ \E i, j \in DOMAIN saved.positions : saved.positions[i][2] # saved.positions[j][2]
  /\ \E i, j \in DOMAIN saved.positions : saved.positions[i][3] # saved.positions[j][3]

\* C8: the strategies run in the order height, color, structure for 'all' and
\* alone for a single selector; a returned mapping has exactly the keys of the
\* strategies run and each entry's method tag is its key; after a strategy
\* fails no further strategy runs and nothing is returned.
DispatchInOrder ==
  /\ Len(Ran) <= Len(Intended) /\ Ran = SubSeq(Intended, 1, Len(Ran))
  /\ HasReturned =>
       /\ call.method \in supported_methods
       /\ Ran = Intended
       /\ DOMAIN returned = {Intended[i] : i \in DOMAIN Intended}
       /\ \A m \in DOMAIN returned : returned[m].method = m
  /\ ~HasReturned => DOMAIN returned = {}
  /\ pc = "raised" /\ call.exists =>
       /\ Len(Ran) = Cardinality(DOMAIN results) + 1
       /\ out[Len(out)] = <<"Running", Ran[Len(Ran)]>>
       /\ ~ENABLED Next

\* 'all' has returned three results, and each strategy produced voxels.
DispatchInOrderWitness ==
  /\ pc = "returned"
  /\ call.method = "all"
  /\ \A m \in {"height", "color", "structure"} : m \in DOMAIN returned /\ returned[m].count > 0

\* C1: a height call with R >= 1 and H >= 1 returns a grid of shape (R, R, H)
\* whose column (x, y) is occupied exactly at z in [0, h), where
\* h = floor(gray(x, y) / 255 * H) clamped to [0, H].
HeightColumnsExact ==
  LET R == call.kwargs.voxel_resolution
      H == call.kwargs.max_height
  IN (pc \in {"returned", "raised"} /\ call.method = "height" /\ R >= 1 /\ H >= 1) =>
       /\ pc = "returned"
       /\ returned["height"].shape = <<R, R, H>>
       /\ DOMAIN returned["height"].voxels = Cells(<<R, R, H>>)
       /\ \A x, y \in 0..(R - 1) :
            LET floored == (Gray(img_rgb.px[<<y, x>>]) * H) \div 255
                h == IF floored > H THEN H ELSE IF floored < 0 THEN 0 ELSE floored
            IN {z \in 0..(H - 1) : returned["height"].voxels[<<x, y, z>>]} = 0..(h - 1)

\* C2: a colour call with R >= 1 and L >= 1 leaves column (x, y) empty when the
\* pixel's saturation or value is at most 30, and otherwise occupies exactly
\* the cell z = floor(hue / 180 * L) clamped to [0, L-1], coloured with the
\* pixel's RGB.
HueLayerPlacement ==
  LET R == call.kwargs.voxel_resolution
      L == call.kwargs.layers
  IN (pc \in {"returned", "raised"} /\ call.method = "color" /\ R >= 1 /\ L >= 1) =>
       /\ pc = "returned"
       /\ \A x, y \in 0..(R - 1) :
            LET hsv == HSV(img_rgb.px[<<y, x>>])
                floored == (hsv[1] * L) \div 180
                z0 == IF floored > L - 1 THEN L - 1 ELSE floored
                occ == {z \in 0..(L - 1) : returned["color"].voxels[<<x, y, z>>]}
            IN IF hsv[2] <= 30 \/ hsv[3] <= 30
               THEN occ = {}
               ELSE occ = {z0} /\ returned["color"].colors[<<x, y, z0>>] = img_rgb.px[<<y, x>>]

\* C3: a structure call with R >= 1 and D >= 1 returns a grid whose every
\* column (x, y) has at least one occupied cell and is occupied exactly at
\* z in [0, depth_map(x, y)], where depth_map(x, y) is
\* floor(dist(x, y) / max_dist * (D - 1)) when max_dist > 0 and 0 otherwise,
\* and never exceeds D - 1.
StructureColumnsExact ==
  LET R == call.kwargs.voxel_resolution
      D == call.kwargs.depth_levels
  IN (pc \in {"returned", "raised"} /\ call.method = "structure" /\ R >= 1 /\ D >= 1) =>
       /\ pc = "returned"
       /\ LET dist == Materialise([q \in Pix(R) |-> DistanceTransform(edges, q)])
              max_dist == Max({dist[q] : q \in Pix(R)})
          IN \A x, y \in 0..(R - 1) :
               LET g == GCD(dist[<<y, x>>], max_dist)
                   depth == IF max_dist > 0
                            THEN ((dist[<<y, x>>] \div g) * (D - 1)) \div (max_dist \div g)
                            ELSE 0
                   occ == {z \in 0..(D - 1) : returned["structure"].voxels[<<x, y, z>>]}
               IN occ # {} /\ occ = 0..depth /\ depth <= D - 1

\* C6: convert_image with a selector outside the four recognised ones fails
\* with UnknownMethod before the image is loaded or any strategy is started.
UnknownMethodRejectedFirst ==
  (pc # "idle" /\ call.exists /\ call.method \notin supported_methods) =>
    /\ pc = "raised"
    /\ error = "UnknownMethod"
    /\ img_rgb.size = 0
    /\ out = <<>>

\* C7: a strategy called with a non-positive resolution or max_height returns
\* no grid, and one called with positive parameters (resolution 1 included)
\* does not fail.
InvalidParameterRejected ==
  LET R == call.kwargs.voxel_resolution
      H == call.kwargs.max_height
  IN (pc \in {"returned", "raised"} /\ call.method = "height") =>
       /\ pc = "returned" => R >= 1 /\ H >= 1
       /\ pc = "raised" => R <= 0 \/ H <= 0

\* C9: when the edge detector finds no edge pixel, the structure result has
\* exactly one occupied voxel per column, at z = 0, R * R in total.
NoEdgeSingleLayer ==
  LET R == call.kwargs.voxel_resolution
      D == call.kwargs.depth_levels
  IN (pc = "returned" /\ call.method = "structure" /\ R >= 1 /\ D >= 1 /\ edges = {}) =>
       /\ returned["structure"].count = R * R
       /\ \A x, y \in 0..(R - 1) :
            {z \in 0..(D - 1) : returned["structure"].voxels[<<x, y, z>>]} = {0}

\* C10: every occupied voxel (x, y, z) of a structure result stores, in each
\* channel, the base value p scaled to p * (2D - z) / (2D) and rounded to the
\* nearest integer; unoccupied cells store zero.
ShadeRounded ==
  LET R == call.kwargs.voxel_resolution
      D == call.kwargs.depth_levels
  IN (pc = "returned" /\ call.method = "structure" /\ R >= 1 /\ D >= 1) =>
       \A c \in Cells(<<R, R, D>>) :
         IF returned["structure"].voxels[c]
         THEN \A ch \in 1..3 :
                LET p == img_rgb.px[<<c[2], c[1]>>][ch]
                    halfUp == (2 * p * (2 * D - c[3]) + 2 * D) \div (4 * D)
                    halfDown == -((2 * D - 2 * p * (2 * D - c[3])) \div (4 * D))
                IN returned["structure"].colors[c][ch] \in {halfUp, halfDown}
         ELSE returned["structure"].colors[c] = <<0, 0, 0>>

====
